---- MODULE Spec2Model ----
(***************************************************************************)
(* The project detail page (ProjectPage.tsx): loading a project, deriving  *)
(* the caller's role, the permission flags, the status change and delete    *)
(* handlers, and the memberUsers view.                                      *)
(*                                                                          *)
(* Every asynchronous handler is split where the code awaits: the part up   *)
(* to the await issues the request, the data-access collaborator settles    *)
(* the request (resolves or rejects), and the continuation after the await  *)
(* runs as one step.  Requests in flight are kept in issue order.           *)
(***************************************************************************)
EXTENDS Integers, Sequences, FiniteSets

VARIABLES
    id,             \* useParams().id, the requested project identifier
    currentUserId,  \* getCurrentUserId()
    project,        \* useState<Project | null>
    isLoading,      \* useState(true)
    userRole,       \* useState<'owner' | 'admin' | 'team' | null>
    loads,          \* projectService.getById requests in flight
    updates,        \* projectService.update requests in flight
    deletes,        \* projectService.delete requests in flight
    getByIdCalls,   \* number of projectService.getById calls made
    handlerCalls,   \* number of handleStatusChange / handleDelete invocations
    toastCount,     \* number of toast() calls made
    lastToast,      \* title of the latest toast() call
    navigations     \* number of navigate('/') calls made

vars == <<id, currentUserId, project, isLoading, userRole, loads, updates,
          deletes, getByIdCalls, handlerCalls, toastCount, lastToast,
          navigations>>

-----------------------------------------------------------------------------
(* Bounds of the model *)

MaxLoads == 2        \* getById calls in one behaviour (the mount's included)
MaxHandlerCalls == 1 \* handleStatusChange / handleDelete invocations
MaxAdmins == 1       \* length of admins in the inputs of PureSpec
MaxTeam == 2         \* length of team in the inputs of PureSpec

-----------------------------------------------------------------------------
(* Values *)

Undef == "undefined"
ProjectIds == {"p1", "p2"}
UserIds == {"u1", "u2"}
Statuses == {"Actif", "Inactif", "Archivé"}
Roles == {"owner", "admin", "team", "null"}

\* A membership entry is a bare identifier (typeof 'string') or an embedded
\* user record (typeof 'object') carrying _id and/or id.
Str(v) == [typeof |-> "string", value |-> v, _id |-> Undef, id |-> Undef]
Obj(a, b) == [typeof |-> "object", value |-> Undef, _id |-> a, id |-> b]

\* admins / team: an array of entries, or something that is no array.
Arr(s) == [isArray |-> TRUE, items |-> s]
NotArray == [isArray |-> FALSE, items |-> <<>>]

Proj(pid, o, a, t, s) ==
    [_id |-> pid, owner |-> o, admins |-> a, team |-> t, status |-> s]

\* project === null
NullProject == Proj("null", Str(Undef), NotArray, NotArray, Undef)

\* a || b on identifier values
Or(a, b) == IF a # Undef THEN a ELSE b

\* typeof x === 'object' ? (x._id || x.id) : x
NormalizeId(x) == IF x.typeof = "object" THEN Or(x._id, x.id) ELSE x.value

\* Array.isArray(list) && list.some(e => normalized(e) === uid)
RECURSIVE Some(_, _, _)
Some(items, uid, i) ==
    IF i > Len(items) THEN FALSE
    ELSE IF NormalizeId(items[i]) = uid THEN TRUE
    ELSE Some(items, uid, i + 1)

IsMember(list, uid) == list.isArray /\ Some(list.items, uid, 1)

\* A plausible slip: team is looked up before admins.
RoleTeamFirst(data, uid) ==
    IF uid = NormalizeId(data.owner) THEN "owner"
    ELSE IF IsMember(data.team, uid) THEN "team"
    ELSE IF IsMember(data.admins, uid) THEN "admin"
    ELSE "null"

\* The role loadProject stores for the fetched data.
Role(data, uid) ==
    IF uid = NormalizeId(data.owner) THEN "owner"
    ELSE IF IsMember(data.admins, uid) THEN "admin"
    ELSE IF IsMember(data.team, uid) THEN "team"
    ELSE "null"

\* A plausible slip: the userIds set is never consulted.
AddUserNoDedup(e, acc) ==
    IF e.typeof = "object"
    THEN <<Append(acc[1], e), acc[2] \cup {Or(e._id, e.id)}>>
    ELSE acc

\* One guarded push of getMemberUsers; acc = <<users, userIds>>:
\* if (typeof e === 'object' && e) { k = e._id || e.id;
\*   if (!userIds.has(k)) { users.push(e); userIds.add(k) } }
AddUser(e, acc) ==
    IF e.typeof = "object" /\ Or(e._id, e.id) \notin acc[2]
    THEN <<Append(acc[1], e), acc[2] \cup {Or(e._id, e.id)}>>
    ELSE acc

\* if (Array.isArray(list)) list.forEach(...)
RECURSIVE ForEach(_, _, _)
ForEach(items, i, acc) ==
    IF i > Len(items) THEN acc
    ELSE ForEach(items, i + 1, AddUser(items[i], acc))

AddList(list, acc) == IF list.isArray THEN ForEach(list.items, 1, acc) ELSE acc

\* getMemberUsers(): owner, then admins, then team, embedded records only.
getMemberUsers(p) ==
    AddList(p.team, AddList(p.admins, AddUser(p.owner, <<<<>>, {}>>)))[1]

\* const memberUsers = getMemberUsers(), computed by the loaded render.
memberUsers == getMemberUsers(project)

-----------------------------------------------------------------------------
(* Permission flags, recomputed by every render *)

isOwner == userRole = "owner"
canEditProject == isOwner
canDeleteProject == isOwner
canManageTeam == isOwner
\* A plausible slip: every member may create tickets.
canCreateTicketAnyMember == userRole # "null"
canCreateTicket == isOwner
canChangeStatus == isOwner

-----------------------------------------------------------------------------
(* The data-access collaborator *)

\* What the remote store may hold for a project identifier.  Other clients
\* change it at any time, so getById may resolve with any of these.
Stored(pid, s) ==
    IF pid = "p1"
    THEN { Proj("p1", Str("u1"), Arr(<<>>), Arr(<<Str("u2")>>), s),
           Proj("p1", Obj("u2", Undef), Arr(<<Obj(Undef, "u1")>>), NotArray, s) }
    ELSE { Proj("p2", Obj(Undef, "u2"), Arr(<<Str("u3")>>),
                Arr(<<Obj("u1", "u1"), Str("u1")>>), s),
           Proj("p2", Str("u3"), Arr(<<>>), Arr(<<>>), s) }

ServerProjects(pid) == UNION { Stored(pid, s) : s \in Statuses }

RemoveAt(s, i) == SubSeq(s, 1, i - 1) \o SubSeq(s, i + 1, Len(s))
Settled(s, i, phase) == [s EXCEPT ![i].phase = phase]

\* toast({ title, ... })
Toast(title) == toastCount' = toastCount + 1 /\ lastToast' = title
NoToast == UNCHANGED <<toastCount, lastToast>>

\* The page is still displayed: no navigate('/') has replaced it.
Displayed == navigations = 0

-----------------------------------------------------------------------------
(* loadProject *)

\* loadProject up to its await: setIsLoading(true); getById(id).
\* The route /project/:id always supplies id, so "if (!id) return" is not taken.
loadProject(pid) ==
    /\ isLoading' = TRUE
    /\ loads' = Append(loads, [target |-> pid, phase |-> "pending", data |-> NullProject])
    /\ getByIdCalls' = getByIdCalls + 1

\* useEffect(() => { loadProject() }, [id]) after the route parameter changed.
ChangeId(newId) ==
    /\ Displayed
    /\ newId # id
    /\ getByIdCalls < MaxLoads
    /\ id' = newId
    /\ loadProject(newId)
    /\ UNCHANGED <<currentUserId, project, userRole, updates, deletes,
                   handlerCalls, toastCount, lastToast, navigations>>

\* onTicketCreated / onMembersUpdated / onProjectUpdated = {loadProject}:
\* the child dialogs exist only in the loaded render and only for the owner.
Reload ==
    /\ Displayed
    /\ ~isLoading
    /\ project # NullProject
    /\ canCreateTicket \/ canManageTeam \/ canEditProject
    /\ getByIdCalls < MaxLoads
    /\ loadProject(id)
    /\ UNCHANGED <<id, currentUserId, project, userRole, updates, deletes,
                   handlerCalls, toastCount, lastToast, navigations>>

\* getById resolves with the stored record.
GetByIdResolves(i, d) ==
    /\ loads[i].phase = "pending"
    /\ d \in ServerProjects(loads[i].target)
    /\ loads' = [loads EXCEPT ![i] = [target |-> loads[i].target, phase |-> "resolved", data |-> d]]
    /\ UNCHANGED <<id, currentUserId, project, isLoading, userRole, updates,
                   deletes, getByIdCalls, handlerCalls, toastCount, lastToast,
                   navigations>>

\* getById rejects (NotFound / NetworkError).
GetByIdRejects(i) ==
    /\ loads[i].phase = "pending"
    /\ loads' = Settled(loads, i, "rejected")
    /\ UNCHANGED <<id, currentUserId, project, isLoading, userRole, updates,
                   deletes, getByIdCalls, handlerCalls, toastCount, lastToast,
                   navigations>>

\* A guarded variant: a response for another identifier than the requested
\* one is discarded.
loadProjectResolvedGuarded(i) ==
    /\ loads[i].phase = "resolved"
    /\ IF loads[i].target = id
       THEN /\ project' = loads[i].data
            /\ userRole' = Role(loads[i].data, currentUserId)
       ELSE UNCHANGED <<project, userRole>>
    /\ isLoading' = FALSE
    /\ loads' = RemoveAt(loads, i)
    /\ UNCHANGED <<id, currentUserId, updates, deletes, getByIdCalls,
                   handlerCalls, toastCount, lastToast, navigations>>

\* loadProject after its await resolved: setProject(data); setUserRole(...);
\* finally setIsLoading(false).
loadProjectResolved(i) ==
    /\ loads[i].phase = "resolved"
    /\ project' = loads[i].data
    /\ userRole' = Role(loads[i].data, currentUserId)
    /\ isLoading' = FALSE
    /\ loads' = RemoveAt(loads, i)
    /\ UNCHANGED <<id, currentUserId, updates, deletes, getByIdCalls,
                   handlerCalls, toastCount, lastToast, navigations>>

\* A plausible slip: the flag is cleared on the success path only.
loadProjectRejectedNoFinally(i) ==
    /\ loads[i].phase = "rejected"
    /\ Toast("Erreur")
    /\ navigations' = navigations + 1
    /\ loads' = RemoveAt(loads, i)
    /\ UNCHANGED <<id, currentUserId, project, isLoading, userRole, updates,
                   deletes, getByIdCalls, handlerCalls>>

\* A plausible slip: the failure is reported but the caller is not redirected.
loadProjectRejectedNoNavigate(i) ==
    /\ loads[i].phase = "rejected"
    /\ Toast("Erreur")
    /\ isLoading' = FALSE
    /\ loads' = RemoveAt(loads, i)
    /\ UNCHANGED <<id, currentUserId, project, userRole, updates, deletes,
                   getByIdCalls, handlerCalls, navigations>>

\* loadProject after its await rejected: catch { toast; navigate('/') }
\* finally setIsLoading(false).
loadProjectRejected(i) ==
    /\ loads[i].phase = "rejected"
    /\ Toast("Erreur")
    /\ navigations' = navigations + 1
    /\ isLoading' = FALSE
    /\ loads' = RemoveAt(loads, i)
    /\ UNCHANGED <<id, currentUserId, project, userRole, updates, deletes,
                   getByIdCalls, handlerCalls>>

-----------------------------------------------------------------------------
(* handleStatusChange *)

\* { ...project, status }
PatchStatus(p, status) == [p EXCEPT !.status = status]

\* A plausible slip: the permission check is dropped from the guard.
StatusChangeAllowedNoFlag == project # NullProject

\* !(!project || !canChangeStatus)
StatusChangeAllowed == project # NullProject /\ canChangeStatus

\* handleStatusChange up to its await: the guard, then
\* projectService.update(project._id, { status }).
handleStatusChange(status) ==
    /\ Displayed
    /\ handlerCalls < MaxHandlerCalls
    /\ handlerCalls' = handlerCalls + 1
    /\ IF StatusChangeAllowed
       THEN /\ updates' = Append(updates, [project |-> project, status |-> status,
                                           phase |-> "pending"])
            /\ NoToast
       ELSE /\ Toast("Accès refusé")
            /\ UNCHANGED updates
    /\ UNCHANGED <<id, currentUserId, project, isLoading, userRole, loads,
                   deletes, getByIdCalls, navigations>>

UpdateResolves(i) ==
    /\ updates[i].phase = "pending"
    /\ updates' = Settled(updates, i, "resolved")
    /\ UNCHANGED <<id, currentUserId, project, isLoading, userRole, loads,
                   deletes, getByIdCalls, handlerCalls, toastCount, lastToast,
                   navigations>>

UpdateRejects(i) ==
    /\ updates[i].phase = "pending"
    /\ updates' = Settled(updates, i, "rejected")
    /\ UNCHANGED <<id, currentUserId, project, isLoading, userRole, loads,
                   deletes, getByIdCalls, handlerCalls, toastCount, lastToast,
                   navigations>>

\* A plausible slip: success triggers a re-fetch instead of the local patch.
handleStatusChangeResolvedRefetch(i) ==
    /\ updates[i].phase = "resolved"
    /\ loadProject(id)
    /\ Toast("Statut modifié")
    /\ updates' = RemoveAt(updates, i)
    /\ UNCHANGED <<id, currentUserId, project, userRole, deletes,
                   handlerCalls, navigations>>

\* handleStatusChange after its await resolved:
\* setProject({ ...project, status }); toast 'Statut modifié'.
\* project is the value the handler's render captured.
handleStatusChangeResolved(i) ==
    /\ updates[i].phase = "resolved"
    /\ project' = PatchStatus(updates[i].project, updates[i].status)
    /\ Toast("Statut modifié")
    /\ updates' = RemoveAt(updates, i)
    /\ UNCHANGED <<id, currentUserId, isLoading, userRole, loads, deletes,
                   getByIdCalls, handlerCalls, navigations>>

\* A plausible slip: the status is patched before the outcome is known and is
\* kept on failure.
handleStatusChangeRejectedPatched(i) ==
    /\ updates[i].phase = "rejected"
    /\ project' = PatchStatus(project, updates[i].status)
    /\ Toast("Erreur")
    /\ updates' = RemoveAt(updates, i)
    /\ UNCHANGED <<id, currentUserId, isLoading, userRole, loads, deletes,
                   getByIdCalls, handlerCalls, navigations>>

\* handleStatusChange after its await rejected: catch { toast 'Erreur' }.
handleStatusChangeRejected(i) ==
    /\ updates[i].phase = "rejected"
    /\ Toast("Erreur")
    /\ updates' = RemoveAt(updates, i)
    /\ UNCHANGED <<id, currentUserId, project, isLoading, userRole, loads,
                   deletes, getByIdCalls, handlerCalls, navigations>>

-----------------------------------------------------------------------------
(* handleDelete *)

\* !(!project || !canDeleteProject)
DeleteAllowed == project # NullProject /\ canDeleteProject

\* handleDelete up to its await: the guard, then
\* projectService.delete(project._id).
handleDelete ==
    /\ Displayed
    /\ handlerCalls < MaxHandlerCalls
    /\ handlerCalls' = handlerCalls + 1
    /\ IF DeleteAllowed
       THEN /\ deletes' = Append(deletes, [project |-> project, phase |-> "pending"])
            /\ NoToast
       ELSE /\ Toast("Accès refusé")
            /\ UNCHANGED deletes
    /\ UNCHANGED <<id, currentUserId, project, isLoading, userRole, loads,
                   updates, getByIdCalls, navigations>>

DeleteResolves(i) ==
    /\ deletes[i].phase = "pending"
    /\ deletes' = Settled(deletes, i, "resolved")
    /\ UNCHANGED <<id, currentUserId, project, isLoading, userRole, loads,
                   updates, getByIdCalls, handlerCalls, toastCount, lastToast,
                   navigations>>

DeleteRejects(i) ==
    /\ deletes[i].phase = "pending"
    /\ deletes' = Settled(deletes, i, "rejected")
    /\ UNCHANGED <<id, currentUserId, project, isLoading, userRole, loads,
                   updates, getByIdCalls, handlerCalls, toastCount, lastToast,
                   navigations>>

\* handleDelete after its await resolved: toast 'Projet supprimé'; navigate('/').
handleDeleteResolved(i) ==
    /\ deletes[i].phase = "resolved"
    /\ Toast("Projet supprimé")
    /\ navigations' = navigations + 1
    /\ deletes' = RemoveAt(deletes, i)
    /\ UNCHANGED <<id, currentUserId, project, isLoading, userRole, loads,
                   updates, getByIdCalls, handlerCalls>>

\* handleDelete after its await rejected: catch { toast 'Erreur' }.
handleDeleteRejected(i) ==
    /\ deletes[i].phase = "rejected"
    /\ Toast("Erreur")
    /\ deletes' = RemoveAt(deletes, i)
    /\ UNCHANGED <<id, currentUserId, project, isLoading, userRole, loads,
                   updates, getByIdCalls, handlerCalls, navigations>>

-----------------------------------------------------------------------------
(* The page: state after mounting, and its steps *)

\* useState initial values, then the mount effect has run loadProject up to
\* its await.
Init ==
    /\ id \in ProjectIds
    /\ currentUserId \in UserIds
    /\ project = NullProject
    /\ isLoading = TRUE
    /\ userRole = "null"
    /\ loads = <<[target |-> id, phase |-> "pending", data |-> NullProject]>>
    /\ updates = <<>>
    /\ deletes = <<>>
    /\ getByIdCalls = 1
    /\ handlerCalls = 0
    /\ toastCount = 0
    /\ lastToast = "none"
    /\ navigations = 0

Next ==
    \/ \E newId \in ProjectIds : ChangeId(newId)
    \/ Reload
    \/ \E i \in DOMAIN loads : \E d \in ServerProjects(loads[i].target) : GetByIdResolves(i, d)
    \/ \E i \in DOMAIN loads : GetByIdRejects(i)
    \/ \E i \in DOMAIN loads : loadProjectResolved(i)
    \/ \E i \in DOMAIN loads : loadProjectRejected(i)
    \/ \E status \in Statuses : handleStatusChange(status)
    \/ \E i \in DOMAIN updates : UpdateResolves(i)
    \/ \E i \in DOMAIN updates : UpdateRejects(i)
    \/ \E i \in DOMAIN updates : handleStatusChangeResolved(i)
    \/ \E i \in DOMAIN updates : handleStatusChangeRejected(i)
    \/ handleDelete
    \/ \E i \in DOMAIN deletes : DeleteResolves(i)
    \/ \E i \in DOMAIN deletes : DeleteRejects(i)
    \/ \E i \in DOMAIN deletes : handleDeleteResolved(i)
    \/ \E i \in DOMAIN deletes : handleDeleteRejected(i)

Spec == Init /\ [][Next]_vars

-----------------------------------------------------------------------------
(* Role derivation and memberUsers on arbitrary fetched records: the first   *)
(* getById has resolved with any project built from the entries below, and  *)
(* the continuation of loadProject is applied to it.                        *)

Entries ==
    {Str(u) : u \in UserIds}
        \cup {Obj(u, Undef) : u \in UserIds}
        \cup {Obj(Undef, u) : u \in UserIds}
        \cup {Obj("u1", "u2")}

SeqsUpTo(S, n) == UNION {[1..k -> S] : k \in 0..n}
Lists(n) == {NotArray} \cup {Arr(s) : s \in SeqsUpTo(Entries, n)}

FetchedProjects ==
    {Proj("p1", o, a, t, "Actif") :
        o \in Entries, a \in Lists(MaxAdmins), t \in Lists(MaxTeam)}

PureInit ==
    /\ id = "p1"
    /\ currentUserId \in UserIds
    /\ project = NullProject
    /\ isLoading = TRUE
    /\ userRole = "null"
    /\ \E d \in FetchedProjects :
          loads = <<[target |-> "p1", phase |-> "resolved", data |-> d]>>
    /\ updates = <<>>
    /\ deletes = <<>>
    /\ getByIdCalls = 1
    /\ handlerCalls = 0
    /\ toastCount = 0
    /\ lastToast = "none"
    /\ navigations = 0

PureNext == \E i \in DOMAIN loads : loadProjectResolved(i)

PureSpec == PureInit /\ [][PureNext]_vars

-----------------------------------------------------------------------------
(* Properties *)

Loaded == loads = <<>> /\ project # NullProject

\* The normalized identifiers listed in admins / team.
ListedIds(list) ==
    IF list.isArray
    THEN {NormalizeId(list.items[k]) : k \in DOMAIN list.items}
    ELSE {}

\* C1: the role stored by a load is exactly one of owner, admin, team, none,
\* chosen in priority order: owner if the normalized owner equals the current
\* user, else admin if a normalized admins entry does, else team if a
\* normalized team entry does, else none.
RoleByPriority ==
    Loaded =>
        LET u == currentUserId
            own == NormalizeId(project.owner) = u
            adm == u \in ListedIds(project.admins)
            tm == u \in ListedIds(project.team)
        IN /\ userRole \in Roles
           /\ userRole = "owner" <=> own
           /\ userRole = "admin" <=> ~own /\ adm
           /\ userRole = "team" <=> ~own /\ ~adm /\ tm
           /\ userRole = "null" <=> ~own /\ ~adm /\ ~tm

\* C1 witness: the current user is the owner and is also listed in admins and
\* in team, and the stored role is owner.
OwnerAlsoListed ==
    /\ Loaded
    /\ NormalizeId(project.owner) = currentUserId
    /\ currentUserId \in ListedIds(project.admins)
    /\ currentUserId \in ListedIds(project.team)
    /\ userRole = "owner"

\* The identifier getMemberUsers keys an embedded record by.
Key(e) == Or(e._id, e.id)
Items(list) == IF list.isArray THEN list.items ELSE <<>>
IsEmbedded(e) == e.typeof = "object"

\* owner, admins, team in order, embedded records only.
EmbeddedInOrder(p) ==
    SelectSeq(<<p.owner>> \o Items(p.admins) \o Items(p.team), IsEmbedded)

FirstIndex(c, k) ==
    CHOOSE i \in DOMAIN c : Key(c[i]) = k /\ \A j \in 1..(i - 1) : Key(c[j]) # k

\* C7: memberUsers has no two entries with the same identifier, holds
\* embedded records only, and keeps first-seen order (owner, then admins in
\* order, then team in order): each entry is the first embedded record
\* carrying its identifier, and entries appear in the order of those first
\* occurrences; every embedded identifier is represented.
MemberUsersDeduplicatedInOrder ==
    Loaded =>
        LET m == memberUsers
            c == EmbeddedInOrder(project)
        IN /\ \A i, j \in DOMAIN m : i # j => Key(m[i]) # Key(m[j])
           /\ \A i \in DOMAIN m : IsEmbedded(m[i])
           /\ {Key(m[i]) : i \in DOMAIN m} = {Key(c[i]) : i \in DOMAIN c}
           /\ \A i \in DOMAIN m : m[i] = c[FirstIndex(c, Key(m[i]))]
           /\ \A i, j \in DOMAIN m :
                 i < j => FirstIndex(c, Key(m[i])) < FirstIndex(c, Key(m[j]))

\* C7 witness: a loaded project with a bare team entry, an identifier that
\* is embedded twice, and two members displayed.
MembersWithDuplicateAndBare ==
    /\ Loaded
    /\ Len(memberUsers) = 2
    /\ Len(EmbeddedInOrder(project)) > Len(memberUsers)
    /\ \E k \in DOMAIN Items(project.team) : ~IsEmbedded(project.team.items[k])

\* Steps, recognised by what they do to the requests in flight.
Issued(reqs) == Len(reqs') = Len(reqs) + 1
Handled(reqs, i, phase) == reqs[i].phase = phase /\ reqs' = RemoveAt(reqs, i)
HandlerInvoked == handlerCalls' = handlerCalls + 1
ToastShown(title) == toastCount' = toastCount + 1 /\ lastToast' = title

\* C2: an update request is issued only while canChangeStatus holds and a
\* delete request only while canDeleteProject holds; a handler invoked while
\* its flag is false shows the access-denied notification and does nothing
\* else: no request of any kind, no change of the project, no navigation.
NoCallWithoutPermission ==
    [][ /\ Issued(updates) => canChangeStatus
        /\ Issued(deletes) => canDeleteProject
        /\ (HandlerInvoked /\ ~canChangeStatus /\ ~canDeleteProject) =>
              /\ ToastShown("Accès refusé")
              /\ UNCHANGED <<updates, deletes, loads, getByIdCalls, project,
                             userRole, isLoading, navigations>>
      ]_vars

\* C2 witness: a handler was invoked on a loaded project by a user who is not
\* the owner; access was denied and nothing is in flight.
DeniedForNonOwner ==
    /\ Loaded
    /\ ~isOwner
    /\ handlerCalls = 1
    /\ lastToast = "Accès refusé"
    /\ updates = <<>>
    /\ deletes = <<>>

\* C3: neither issuing an update or delete request nor handling its failure
\* changes the local project; handling the failure invokes no navigation and
\* shows an error notification.
FailureLeavesProjectUnchanged ==
    [][ /\ (Issued(updates) \/ Issued(deletes)) => project' = project
        /\ \A i \in DOMAIN updates :
              Handled(updates, i, "rejected") =>
                 /\ project' = project
                 /\ navigations' = navigations
                 /\ ToastShown("Erreur")
        /\ \A i \in DOMAIN deletes :
              Handled(deletes, i, "rejected") =>
                 /\ project' = project
                 /\ navigations' = navigations
                 /\ ToastShown("Erreur")
      ]_vars

\* C3 witness: the owner's request (status change or delete) failed after the
\* single load of the mount; the project is still displayed, no navigation
\* happened and the error is shown.
StatusChangeFailedShown ==
    /\ Loaded
    /\ isOwner
    /\ handlerCalls = 1
    /\ updates = <<>>
    /\ deletes = <<>>
    /\ lastToast = "Erreur"
    /\ navigations = 0
    /\ getByIdCalls = 1

\* C4: when the update of a status change resolves, the local status becomes
\* the requested one, and neither issuing the request nor handling its
\* success issues a getById call.
StatusPatchedWithoutRefetch ==
    [][ /\ Issued(updates) => UNCHANGED <<loads, getByIdCalls>>
        /\ \A i \in DOMAIN updates :
              Handled(updates, i, "resolved") =>
                 /\ project'.status = updates[i].status
                 /\ UNCHANGED <<loads, getByIdCalls>>
      ]_vars

\* C4 witness: user u1, owner of the fetched p1, changed the status to
\* Archivé; it is the local status after the single getById of the mount.
OwnerArchived ==
    /\ currentUserId = "u1"
    /\ project = Proj("p1", Str("u1"), Arr(<<>>), Arr(<<Str("u2")>>), "Archivé")
    /\ isOwner
    /\ lastToast = "Statut modifié"
    /\ updates = <<>>
    /\ loads = <<>>
    /\ getByIdCalls = 1

\* C5: the continuation of every load, after getById resolved or rejected,
\* leaves the loading flag false.
LoadingClearedByEveryLoad ==
    [][ \A i \in DOMAIN loads :
           (Handled(loads, i, "resolved") \/ Handled(loads, i, "rejected"))
              => isLoading' = FALSE
      ]_vars

\* C5 witness: the load of the mount was rejected and the flag is cleared.
FirstLoadRejectedFlagCleared ==
    /\ getByIdCalls = 1
    /\ loads = <<>>
    /\ navigations = 1
    /\ handlerCalls = 0
    /\ ~isLoading

\* C6 as stated: after a rejected getById the loading flag is false, the
\* project is null, navigation was invoked and an error notification shown.
LoadFailureLeavesNoProject ==
    [][ \A i \in DOMAIN loads :
           Handled(loads, i, "rejected") =>
              /\ isLoading' = FALSE
              /\ project' = NullProject
              /\ navigations' = navigations + 1
              /\ ToastShown("Erreur")
      ]_vars

\* C6 amended: after a rejected getById the loading flag is false, the
\* project and the role are what they were before (null on a first load, the
\* previously fetched project on a later one), navigation was invoked and an
\* error notification shown.
LoadFailureKeepsProject ==
    [][ \A i \in DOMAIN loads :
           Handled(loads, i, "rejected") =>
              /\ isLoading' = FALSE
              /\ project' = project
              /\ userRole' = userRole
              /\ navigations' = navigations + 1
              /\ ToastShown("Erreur")
      ]_vars

\* C6 witness: a later load was rejected while a project was held; the
\* project is still held after the redirect.
ReloadRejectedProjectKept ==
    /\ getByIdCalls = 2
    /\ loads = <<>>
    /\ handlerCalls = 0
    /\ navigations = 1
    /\ lastToast = "Erreur"
    /\ ~isLoading
    /\ project # NullProject

\* C8: each of the five permission flags is true iff the role is owner.
FlagsIffOwner ==
    /\ userRole \in Roles
    /\ canEditProject <=> userRole = "owner"
    /\ canDeleteProject <=> userRole = "owner"
    /\ canManageTeam <=> userRole = "owner"
    /\ canCreateTicket <=> userRole = "owner"
    /\ canChangeStatus <=> userRole = "owner"

\* C8 witness: user u2 loaded p1 owned by u1 with team [u2]: the role is
\* team and canCreateTicket is false.
TeamMemberCannotCreateTicket ==
    /\ currentUserId = "u2"
    /\ project = Proj("p1", Str("u1"), Arr(<<>>), Arr(<<Str("u2")>>), "Actif")
    /\ loads = <<>>
    /\ userRole = "team"
    /\ ~canCreateTicket

\* C9: a response for an identifier that is no longer the requested one is
\* not discarded: its continuation stores its project and that project's role.
StaleResponseOverwrites ==
    [][ \A i \in DOMAIN loads :
           (Handled(loads, i, "resolved") /\ loads[i].target # id) =>
              /\ project' = loads[i].data
              /\ userRole' = Role(loads[i].data, currentUserId)
      ]_vars

\* C9 witness: two loads were issued and both succeeded, no load is in
\* flight, and the stored project and role are not those of the requested
\* identifier but those of the earlier one.
StaleProjectShown ==
    /\ getByIdCalls = 2
    /\ loads = <<>>
    /\ navigations = 0
    /\ handlerCalls = 0
    /\ ~isLoading
    /\ project # NullProject
    /\ project._id # id
    /\ userRole = Role(project, currentUserId)

\* C10: whenever a project is held, the stored role is the role derived from
\* the held project and the current user.
RoleMatchesHeldProject ==
    project # NullProject => userRole = Role(project, currentUserId)

====
